---- MODULE Spec2Model ----
(***************************************************************************)
(* Users / church-members CRUD service: the service layer                  *)
(* (internal/service), the repositories (internal/repository) and the two  *)
(* tables of migrations/*.sql, run by concurrent requests.                 *)
(*                                                                         *)
(* A Go string is a sequence of one-character strings, so that TrimSpace,  *)
(* len and the e-mail pattern are computed and not assumed.  A time.Time   *)
(* is a natural number of clock ticks at the precision of the TIMESTAMP    *)
(* columns; 0 is the zero time (IsZero).  A *T result is a sequence of     *)
(* length 0 (nil) or 1.  An error is its message; "" is the nil error.     *)
(*                                                                         *)
(* Each request runs one service call.  One action is one storage          *)
(* statement together with the local code that follows it up to the next   *)
(* storage statement (or the return), which is the granularity at which    *)
(* concurrent requests can observe each other.                             *)
(***************************************************************************)
EXTENDS Integers, Sequences, FiniteSets, TLC

\* ------------------------------------------------------------ bounds
NumProcs == 2      \* concurrent requests
MaxID    == 2      \* values the SERIAL sequences may hand out
MaxTime  == 2      \* clock ticks

Procs == 1..NumProcs

VARIABLES
    church_members,         \* rows of table church_members
    church_members_id_seq,  \* next value of church_members.id (SERIAL)
    users,                  \* rows of table users
    users_id_seq,           \* next value of users.id (SERIAL)
    clock,                  \* time.Now()
    pc,                     \* per request: where its service call stands
    op,                     \* per request: the service method it runs
    req,                    \* per request: the entity / id as the caller passed it
    m,                      \* per request: the entity the service works on (*m is mutated)
    existing,               \* per request: UpdateMember's local `existing`
    result,                 \* per request: what the service call returned
    calls,                  \* per request: the repository calls made so far
    cursor,                 \* per request: the *sql.Rows of its ScanRows call
    listed,                 \* per request: the slice its List call builds and returns
    everMemberIDs,          \* history: ids ever held by a church member
    everUserIDs,            \* history: ids ever held by a user
    uow,                    \* per request: its UnitOfWorkImpl and the last call made on it
    txs                     \* the transactions the database has begun (*sql.Tx)

vars == <<church_members, church_members_id_seq, users, users_id_seq, clock,
          pc, op, req, m, existing, result, calls, cursor, listed,
          everMemberIDs, everUserIDs, uow, txs>>

store == <<church_members, church_members_id_seq, users, users_id_seq>>
hist  == <<everMemberIDs, everUserIDs>>
scan  == <<cursor, listed>>
work  == <<uow, txs>>

\* ------------------------------------------------------------ strings
Lower == {"a","b","c","d","e","f","g","h","i","j","k","l","m",
          "n","o","p","q","r","s","t","u","v","w","x","y","z"}
Upper == {"A","B","C","D","E","F","G","H","I","J","K","L","M",
          "N","O","P","Q","R","S","T","U","V","W","X","Y","Z"}
Digit == {"0","1","2","3","4","5","6","7","8","9"}
Letter == Lower \cup Upper
WhiteSpace == {" ", "\t", "\n", "\r"}

RECURSIVE TrimLeft(_)
TrimLeft(s) ==
    IF s # <<>> /\ Head(s) \in WhiteSpace THEN TrimLeft(Tail(s)) ELSE s

RECURSIVE TrimRight(_)
TrimRight(s) ==
    IF s # <<>> /\ s[Len(s)] \in WhiteSpace
    THEN TrimRight(SubSeq(s, 1, Len(s) - 1)) ELSE s

TrimSpace(s) == TrimRight(TrimLeft(s))

\* characters that UTF-8 encodes in two bytes; every other character used
\* here is ASCII and takes one
TwoByte == {"é"}

\* len(s): the number of bytes of the string
ByteLen(s) == Len(s) + Cardinality({i \in 1..Len(s) : s[i] \in TwoByte})

\* ------------------------------------------------------------ errors
NoErr == ""
ErrNameRequired  == "name is required"
ErrNameLength    == "name must be between 2 and 255 characters"
ErrEmailRequired == "email is required"
ErrEmailFormat   == "invalid email format"
ErrPhoneLength   == "phone must not exceed 20 characters"
ErrAddressLength == "address must not exceed 500 characters"
ErrBiographyLength == "biography must not exceed 5000 characters"
ErrEmailExists   == "email already exists"
ErrInvalidID     == "invalid member id"
ErrMemberNotFound == "member not found"
ErrDateRange     == "start date must be before end date"
\* the driver's error for a violated UNIQUE constraint
ErrMembersEmailKey == "pq: duplicate key value violates unique constraint church_members_email_key"
ErrUsersEmailKey   == "pq: duplicate key value violates unique constraint users_email_key"

\* ------------------------------------------------------------ validation
MinNameLen == 2
MaxNameLen == 255
MaxPhoneLen == 20
MaxAddressLen == 500
MaxBiographyLen == 5000
MinTLDLen == 2

LocalChars  == Letter \cup Digit \cup {".", "_", "%", "+", "-"}
DomainChars == Letter \cup Digit \cup {".", "-"}

\* ^[a-zA-Z0-9._%+-]+@[a-zA-Z0-9.-]+\.[a-zA-Z]{2,}$
\* i is the place of the "@", j the place of the "." before the last label.
isValidEmail(email) ==
    \E i \in 2..Len(email) : \E j \in (i + 2)..(Len(email) - MinTLDLen) :
        /\ \A k \in 1..(i - 1) : email[k] \in LocalChars
        /\ email[i] = "@"
        /\ \A k \in (i + 1)..(j - 1) : email[k] \in DomainChars
        /\ email[j] = "."
        /\ \A k \in (j + 1)..Len(email) : email[k] \in Letter

validateMember(mm) ==
    LET name  == TrimSpace(mm.Name)
        email == TrimSpace(mm.Email)
    IN  IF name = <<>> THEN ErrNameRequired
        ELSE IF ByteLen(name) < MinNameLen \/ ByteLen(name) > MaxNameLen THEN ErrNameLength
        ELSE IF email = <<>> THEN ErrEmailRequired
        ELSE IF ~isValidEmail(email) THEN ErrEmailFormat
        ELSE IF mm.Phone # <<>> /\ ByteLen(mm.Phone) > MaxPhoneLen THEN ErrPhoneLength
        ELSE IF ByteLen(mm.Address) > MaxAddressLen THEN ErrAddressLength
        ELSE IF ByteLen(mm.Biography) > MaxBiographyLen THEN ErrBiographyLength
        ELSE NoErr

\* ------------------------------------------------------------ model
Nil == <<>>

ZeroMember ==
    [ID |-> 0, Name |-> <<>>, Email |-> <<>>, Phone |-> <<>>, Address |-> <<>>,
     Biography |-> <<>>, JoinedAt |-> 0, CreatedAt |-> 0, UpdatedAt |-> 0]

ZeroUser == [ID |-> 0, Name |-> <<>>, Email |-> <<>>, CreatedAt |-> 0]

\* ------------------------------------------------------------ tables
VarCharLen == 255      \* name VARCHAR(255), email VARCHAR(255)
VarCharPhoneLen == 20  \* phone VARCHAR(20)

\* A value fits VARCHAR(n) when it has at most n characters, or when every
\* character beyond the n-th is a space, and then it is stored cut to n.
VarCharFits(n, s) == \A k \in (n + 1)..Len(s) : s[k] = " "
VarChar(n, s) == IF Len(s) > n THEN SubSeq(s, 1, n) ELSE s

ErrValueTooLong == "pq: value too long for type character varying"

\* the column types of church_members applied to a row about to be written
MemberRowFits(row) ==
    /\ VarCharFits(VarCharLen, row.Name)
    /\ VarCharFits(VarCharLen, row.Email)
    /\ VarCharFits(VarCharPhoneLen, row.Phone)

MemberRowStored(row) ==
    [row EXCEPT !.Name  = VarChar(VarCharLen, row.Name),
                !.Email = VarChar(VarCharLen, row.Email),
                !.Phone = VarChar(VarCharPhoneLen, row.Phone)]

\* faulty variant: the column declared without UNIQUE
EmailUnique_Dropped(rows, row) == TRUE

\* email ... UNIQUE: no other row of the table holds the row's email
EmailUnique(rows, row) == \A r \in rows : r.ID # row.ID => r.Email # row.Email

\* faulty variant: the id is the number of rows plus one, so that the id of a
\* deleted row is handed out again
InsertMember_CountID(rows, seq, mm, now) ==
    LET raw == [ID |-> Cardinality(rows) + 1, Name |-> mm.Name, Email |-> mm.Email,
                Phone |-> mm.Phone, Address |-> mm.Address, Biography |-> mm.Biography,
                JoinedAt |-> mm.JoinedAt, CreatedAt |-> now, UpdatedAt |-> now]
        row == MemberRowStored(raw)
    IN  IF ~MemberRowFits(raw)
        THEN [rows |-> rows, returning |-> {}, err |-> ErrValueTooLong]
        ELSE IF ~EmailUnique(rows, row)
        THEN [rows |-> rows, returning |-> {}, err |-> ErrMembersEmailKey]
        ELSE [rows |-> rows \cup {row}, returning |-> {row.ID}, err |-> NoErr]

\* faulty variant: joined_at is left to the column's DEFAULT CURRENT_TIMESTAMP
InsertMember_JoinedNow(rows, seq, mm, now) ==
    LET raw == [ID |-> seq, Name |-> mm.Name, Email |-> mm.Email, Phone |-> mm.Phone,
                Address |-> mm.Address, Biography |-> mm.Biography,
                JoinedAt |-> now, CreatedAt |-> now, UpdatedAt |-> now]
        row == MemberRowStored(raw)
    IN  IF ~MemberRowFits(raw)
        THEN [rows |-> rows, returning |-> {}, err |-> ErrValueTooLong]
        ELSE IF ~EmailUnique(rows, row)
        THEN [rows |-> rows, returning |-> {}, err |-> ErrMembersEmailKey]
        ELSE [rows |-> rows \cup {row}, returning |-> {row.ID}, err |-> NoErr]

\* INSERT INTO church_members (...) VALUES (...) RETURNING id.  The id is the
\* sequence's next value, which is consumed whether or not the row is kept.
InsertMember(rows, seq, mm, now) ==
    LET raw == [ID |-> seq, Name |-> mm.Name, Email |-> mm.Email, Phone |-> mm.Phone,
                Address |-> mm.Address, Biography |-> mm.Biography,
                JoinedAt |-> mm.JoinedAt, CreatedAt |-> now, UpdatedAt |-> now]
        row == MemberRowStored(raw)
    IN  IF ~MemberRowFits(raw)
        THEN [rows |-> rows, returning |-> {}, err |-> ErrValueTooLong]
        ELSE IF ~EmailUnique(rows, row)
        THEN [rows |-> rows, returning |-> {}, err |-> ErrMembersEmailKey]
        ELSE [rows |-> rows \cup {row}, returning |-> {row.ID}, err |-> NoErr]

\* faulty variant: the statement writes joined_at and created_at as well
UpdateMemberRows_AllColumns(rows, mm, now) ==
    LET hit == {r \in rows : r.ID = mm.ID}
        set(r) == [r EXCEPT !.Name = mm.Name, !.Email = mm.Email, !.Phone = mm.Phone,
                            !.Address = mm.Address, !.Biography = mm.Biography,
                            !.JoinedAt = mm.JoinedAt, !.CreatedAt = mm.CreatedAt,
                            !.UpdatedAt = now]
        new == {MemberRowStored(set(r)) : r \in hit}
    IN  IF \E r \in hit : ~MemberRowFits(set(r))
        THEN [rows |-> rows, affected |-> 0, err |-> ErrValueTooLong]
        ELSE IF \E r \in new : ~EmailUnique(rows, r)
        THEN [rows |-> rows, affected |-> 0, err |-> ErrMembersEmailKey]
        ELSE [rows |-> (rows \ hit) \cup new, affected |-> Cardinality(hit), err |-> NoErr]

\* UPDATE church_members SET name, email, phone, address, biography, updated_at WHERE id
UpdateMemberRows(rows, mm, now) ==
    LET hit == {r \in rows : r.ID = mm.ID}
        set(r) == [r EXCEPT !.Name = mm.Name, !.Email = mm.Email, !.Phone = mm.Phone,
                            !.Address = mm.Address, !.Biography = mm.Biography,
                            !.UpdatedAt = now]
        new == {MemberRowStored(set(r)) : r \in hit}
    IN  IF \E r \in hit : ~MemberRowFits(set(r))
        THEN [rows |-> rows, affected |-> 0, err |-> ErrValueTooLong]
        ELSE IF \E r \in new : ~EmailUnique(rows, r)
        THEN [rows |-> rows, affected |-> 0, err |-> ErrMembersEmailKey]
        ELSE [rows |-> (rows \ hit) \cup new, affected |-> Cardinality(hit), err |-> NoErr]

\* DELETE FROM <table> WHERE id
DeleteRows(rows, id) ==
    LET hit == {r \in rows : r.ID = id}
    IN  [rows |-> rows \ hit, affected |-> Cardinality(hit), err |-> NoErr]

\* INSERT INTO users (name, email, created_at) VALUES (...) RETURNING id
InsertUser(rows, seq, u, now) ==
    LET row == [ID |-> seq, Name |-> u.Name, Email |-> u.Email, CreatedAt |-> now]
    IN  IF ~EmailUnique(rows, row)
        THEN [rows |-> rows, returning |-> {}, err |-> ErrUsersEmailKey]
        ELSE [rows |-> rows \cup {row}, returning |-> {row.ID}, err |-> NoErr]

\* UPDATE users SET name, email WHERE id
UpdateUserRows(rows, u) ==
    LET hit == {r \in rows : r.ID = u.ID}
        new == {[r EXCEPT !.Name = u.Name, !.Email = u.Email] : r \in hit}
    IN  IF \E r \in new : ~EmailUnique(rows, r)
        THEN [rows |-> rows, affected |-> 0, err |-> ErrUsersEmailKey]
        ELSE [rows |-> (rows \ hit) \cup new, affected |-> Cardinality(hit), err |-> NoErr]

\* ------------------------------------------------------------ BaseRepository
ErrNoRows == "sql: no rows in result set"

\* ScanRow: QueryRowContext, then the scan function on the row; Scan reports
\* ErrNoRows when the query gave no row, and the query's error when it failed.
ScanRow(q) ==
    IF q.err # NoErr THEN [row |-> Nil, err |-> q.err]
    ELSE IF q.returning = {} THEN [row |-> Nil, err |-> ErrNoRows]
    ELSE [row |-> <<CHOOSE r \in q.returning : TRUE>>, err |-> NoErr]

\* faulty variant: a statement that touched no row is reported as an error
ExecUpdate_RowsAffected(q) ==
    IF q.err = NoErr /\ q.affected = 0 THEN ErrNoRows ELSE q.err

\* ExecUpdate: ExecContext, the sql.Result (rows affected) dropped
ExecUpdate(q) == q.err

\* SELECT ... WHERE id = $1 / WHERE email = $1
SelectByID(rows, id) == [returning |-> {r \in rows : r.ID = id}, err |-> NoErr]
\* faulty variant: the lookup compares the wrong column
SelectByEmail_ByName(rows, email) ==
    [returning |-> {r \in rows : r.Name = email}, err |-> NoErr]

SelectByEmail(rows, email) == [returning |-> {r \in rows : r.Email = email}, err |-> NoErr]

\* the driver's errors for a lost connection or a cancelled context, reported
\* by QueryContext or by rows.Err(), and for a column rows.Scan cannot convert
ErrBadConn == "driver: bad connection"
ErrScan    == "sql: Scan error: converting NULL to string is unsupported"

\* the orders in which a query may give the rows of S
Orderings(S) ==
    { s \in [1..Cardinality(S) -> S] :
        \A i \in 1..Cardinality(S) : \A j \in 1..Cardinality(S) : i # j => s[i] # s[j] }

\* ORDER BY joined_at DESC: rows of equal joined_at come in any order
OrderByJoinedAtDesc(S) ==
    { s \in Orderings(S) : \A i \in 1..(Cardinality(S) - 1) : s[i].JoinedAt >= s[i + 1].JoinedAt }

\* faulty variant: the rows come by descending id
OrderByID_Descending(S) ==
    { s \in Orderings(S) : \A i \in 1..(Cardinality(S) - 1) : s[i].ID > s[i + 1].ID }

\* ORDER BY id
OrderByID(S) ==
    { s \in Orderings(S) : \A i \in 1..(Cardinality(S) - 1) : s[i].ID < s[i + 1].ID }

\* SELECT ... FROM church_members ORDER BY joined_at DESC
SelectMembers(rows) == OrderByJoinedAtDesc(rows)

\* faulty variant: the bounds of the range are exclusive
JoinedBetween_Exclusive(rows, startDate, endDate) ==
    {r \in rows : r.JoinedAt > startDate /\ r.JoinedAt < endDate}

\* WHERE joined_at >= $1 AND joined_at <= $2
JoinedBetween(rows, startDate, endDate) ==
    {r \in rows : r.JoinedAt >= startDate /\ r.JoinedAt <= endDate}

SelectMembersByJoinedRange(rows, startDate, endDate) ==
    OrderByJoinedAtDesc(JoinedBetween(rows, startDate, endDate))

\* SELECT id, name, email, created_at FROM users ORDER BY id
SelectUsers(rows) == OrderByID(rows)

\* what QueryContext gives ScanRows on success: the rows not yet read
OpenRows(s) == [state |-> "open", rows |-> s, pos |-> 0, scanFn |-> TRUE]

\* faulty variant: rows.Close() is not deferred and never runs
DeferredClose_Skipped(c) == c

\* defer rows.Close()
DeferredClose(c) == [c EXCEPT !.state = "closed"]

\* ------------------------------------------------------------ repositories
\* faulty variant: every error of the scan is turned into (nil, nil)
OneOrNil_ErrSwallowed(s) ==
    IF s.err # NoErr THEN [ptr |-> Nil, err |-> NoErr]
                     ELSE [ptr |-> s.row, err |-> NoErr]

\* faulty variant: ErrNoRows is passed on like any other error
OneOrNil_NoRowsIsError(s) ==
    IF s.err # NoErr THEN [ptr |-> Nil, err |-> s.err]
                     ELSE [ptr |-> s.row, err |-> NoErr]

\* GetByID / GetByEmail of both repositories: ErrNoRows becomes (nil, nil)
OneOrNil(s) ==
    IF s.err # NoErr
    THEN IF s.err = ErrNoRows THEN [ptr |-> Nil, err |-> NoErr]
                              ELSE [ptr |-> Nil, err |-> s.err]
    ELSE [ptr |-> s.row, err |-> NoErr]

ChurchMemberRepository_GetByID(rows, id) == OneOrNil(ScanRow(SelectByID(rows, id)))
ChurchMemberRepository_GetByEmail(rows, email) == OneOrNil(ScanRow(SelectByEmail(rows, email)))
UserRepository_GetByID(rows, id) == OneOrNil(ScanRow(SelectByID(rows, id)))

\* faulty variant: Create returns the id and drops the error
ReturnedID_ErrDropped(q) ==
    LET s == ScanRow(q)
    IN  [id |-> IF s.err = NoErr THEN s.row[1] ELSE 0, err |-> NoErr]

\* Create: var id int64; ScanRow(INSERT ... RETURNING id, Scan(&id)); return id, err
ReturnedID(q) ==
    LET s == ScanRow(q)
    IN  [id |-> IF s.err = NoErr THEN s.row[1] ELSE 0, err |-> s.err]

ChurchMemberRepository_Create(rows, seq, mm, now) ==
    LET q == InsertMember(rows, seq, mm, now)
    IN  [rows |-> q.rows] @@ ReturnedID(q)

UserRepository_Create(rows, seq, u, now) ==
    LET q == InsertUser(rows, seq, u, now)
    IN  [rows |-> q.rows] @@ ReturnedID(q)

ChurchMemberRepository_Update(rows, mm, now) ==
    LET q == UpdateMemberRows(rows, mm, now)
    IN  [rows |-> q.rows, err |-> ExecUpdate(q)]

UserRepository_Update(rows, u) ==
    LET q == UpdateUserRows(rows, u)
    IN  [rows |-> q.rows, err |-> ExecUpdate(q)]

ChurchMemberRepository_Delete(rows, id) ==
    LET q == DeleteRows(rows, id)
    IN  [rows |-> q.rows, err |-> ExecUpdate(q)]

UserRepository_Delete(rows, id) ==
    LET q == DeleteRows(rows, id)
    IN  [rows |-> q.rows, err |-> ExecUpdate(q)]

\* ------------------------------------------------------------ unit of work
\* NewUnitOfWork: db set, tx nil.  op, err and n record the last call made on
\* the unit of work, what it returned and how many calls were made; begun
\* tells whether a Begin has succeeded.
NewUnitOfWork == [tx |-> Nil, op |-> "none", err |-> NoErr, n |-> 0, begun |-> FALSE]

\* ------------------------------------------------------------ requests
NoResult == [id |-> 0, err |-> NoErr, ptr |-> Nil]
Call(fn, a) == [fn |-> fn, arg |-> a]
IDOnly(id) == [ZeroMember EXCEPT !.ID = id]
\* no ScanRows call made: no *sql.Rows, the scan function not called
NoCursor == [state |-> "none", rows |-> <<>>, pos |-> 0, scanFn |-> FALSE]

Init ==
    /\ church_members = {}
    /\ church_members_id_seq = 1
    /\ users = {}
    /\ users_id_seq = 1
    /\ clock = 1
    /\ pc = [p \in Procs |-> "idle"]
    /\ op = [p \in Procs |-> "none"]
    /\ req = [p \in Procs |-> ZeroMember]
    /\ m = [p \in Procs |-> ZeroMember]
    /\ existing = [p \in Procs |-> Nil]
    /\ result = [p \in Procs |-> NoResult]
    /\ calls = [p \in Procs |-> <<>>]
    /\ cursor = [p \in Procs |-> NoCursor]
    /\ listed = [p \in Procs |-> <<>>]
    /\ everMemberIDs = {}
    /\ everUserIDs = {}
    /\ uow = [p \in Procs |-> NewUnitOfWork]
    /\ txs = <<>>

\* the request enters service method o with input in
Enter(p, o, in) ==
    /\ pc[p] = "idle"
    /\ op' = [op EXCEPT ![p] = o]
    /\ req' = [req EXCEPT ![p] = in]

\* the service method returns (id, ptr, err) after the repository calls cs
Finish(p, id, ptr, err, cs) ==
    /\ pc' = [pc EXCEPT ![p] = "done"]
    /\ result' = [result EXCEPT ![p] = [id |-> id, err |-> err, ptr |-> ptr]]
    /\ calls' = [calls EXCEPT ![p] = calls[p] \o cs]

\* the service method goes on to its next repository call
Goto(p, label, cs) ==
    /\ pc' = [pc EXCEPT ![p] = label]
    /\ calls' = [calls EXCEPT ![p] = calls[p] \o cs]
    /\ UNCHANGED result

\* ------------------------------------------------------------ ChurchMemberService
\* faulty variant: the e-mail is looked up before the member is validated
CreateMember_LookupFirst(p, in) ==
    LET verr == validateMember(in)
        g    == ChurchMemberRepository_GetByEmail(church_members, in.Email)
        cs   == <<Call("GetByEmail", in.Email)>>
    IN  /\ Enter(p, "CreateMember", in)
        /\ IF g.err # NoErr
           THEN Finish(p, 0, Nil, g.err, cs) /\ m' = [m EXCEPT ![p] = in]
           ELSE IF g.ptr # Nil
           THEN Finish(p, 0, Nil, ErrEmailExists, cs) /\ m' = [m EXCEPT ![p] = in]
           ELSE IF verr # NoErr
           THEN Finish(p, 0, Nil, verr, cs) /\ m' = [m EXCEPT ![p] = in]
           ELSE /\ Goto(p, "Create", cs)
                /\ m' = [m EXCEPT ![p] =
                           IF in.JoinedAt = 0 THEN [in EXCEPT !.JoinedAt = clock] ELSE in]
        /\ UNCHANGED <<work, scan, store, clock, existing, hist>>

\* CreateMember up to and including the JoinedAt default (lines 25-43)
CreateMember(p, in) ==
    LET verr == validateMember(in)
        g    == ChurchMemberRepository_GetByEmail(church_members, in.Email)
        cs   == <<Call("GetByEmail", in.Email)>>
    IN  /\ Enter(p, "CreateMember", in)
        /\ IF verr # NoErr
           THEN Finish(p, 0, Nil, verr, <<>>) /\ m' = [m EXCEPT ![p] = in]
           ELSE IF g.err # NoErr
           THEN Finish(p, 0, Nil, g.err, cs) /\ m' = [m EXCEPT ![p] = in]
           ELSE IF g.ptr # Nil
           THEN Finish(p, 0, Nil, ErrEmailExists, cs) /\ m' = [m EXCEPT ![p] = in]
           ELSE /\ Goto(p, "Create", cs)
                /\ m' = [m EXCEPT ![p] =
                           IF in.JoinedAt = 0 THEN [in EXCEPT !.JoinedAt = clock] ELSE in]
        /\ UNCHANGED <<work, scan, store, clock, existing, hist>>

\* CreateMember's return s.repo.Create(ctx, m) (line 45)
CreateMember_Create(p) ==
    LET c == ChurchMemberRepository_Create(church_members, church_members_id_seq,
                                           m[p], clock)
    IN  /\ pc[p] = "Create"
        /\ church_members_id_seq <= MaxID
        /\ church_members' = c.rows
        /\ church_members_id_seq' = church_members_id_seq + 1
        /\ everMemberIDs' = {r.ID : r \in c.rows} \cup everMemberIDs
        /\ Finish(p, c.id, Nil, c.err, <<Call("Create", m[p])>>)
        /\ UNCHANGED <<work, scan, users, users_id_seq, clock, op, req, m, existing, everUserIDs>>

GetMember(p, id) ==
    LET g == ChurchMemberRepository_GetByID(church_members, id)
    IN  /\ Enter(p, "GetMember", IDOnly(id))
        /\ IF id <= 0
           THEN Finish(p, 0, Nil, ErrInvalidID, <<>>)
           ELSE Finish(p, 0, g.ptr, g.err, <<Call("GetByID", id)>>)
        /\ UNCHANGED <<work, scan, store, clock, m, existing, hist>>

\* faulty variant: the uniqueness check is repeated on every update
EmailChanged_Always(mm, ex) == TRUE

\* if m.Email != existing.Email (line 77)
EmailChanged(mm, ex) == mm.Email # ex.Email

\* faulty variant: the member is looked up before its fields are validated
UpdateMember_FoundFirst(p, in) ==
    LET verr == validateMember(in)
        g    == ChurchMemberRepository_GetByID(church_members, in.ID)
        cs   == <<Call("GetByID", in.ID)>>
    IN  /\ Enter(p, "UpdateMember", in)
        /\ m' = [m EXCEPT ![p] = in]
        /\ IF in.ID <= 0
           THEN Finish(p, 0, Nil, ErrInvalidID, <<>>) /\ UNCHANGED existing
           ELSE IF g.err # NoErr
           THEN Finish(p, 0, Nil, g.err, cs) /\ UNCHANGED existing
           ELSE IF g.ptr = Nil
           THEN Finish(p, 0, Nil, ErrMemberNotFound, cs) /\ UNCHANGED existing
           ELSE IF verr # NoErr
           THEN Finish(p, 0, Nil, verr, cs) /\ UNCHANGED existing
           ELSE /\ existing' = [existing EXCEPT ![p] = g.ptr]
                /\ Goto(p, IF EmailChanged(in, g.ptr[1]) THEN "GetByEmail" ELSE "Update", cs)
        /\ UNCHANGED <<work, scan, store, clock, hist>>

\* UpdateMember up to the comparison of the e-mails (lines 57-77)
UpdateMember(p, in) ==
    LET verr == validateMember(in)
        g    == ChurchMemberRepository_GetByID(church_members, in.ID)
        cs   == <<Call("GetByID", in.ID)>>
    IN  /\ Enter(p, "UpdateMember", in)
        /\ m' = [m EXCEPT ![p] = in]
        /\ IF in.ID <= 0
           THEN Finish(p, 0, Nil, ErrInvalidID, <<>>) /\ UNCHANGED existing
           ELSE IF verr # NoErr
           THEN Finish(p, 0, Nil, verr, <<>>) /\ UNCHANGED existing
           ELSE IF g.err # NoErr
           THEN Finish(p, 0, Nil, g.err, cs) /\ UNCHANGED existing
           ELSE IF g.ptr = Nil
           THEN Finish(p, 0, Nil, ErrMemberNotFound, cs) /\ UNCHANGED existing
           ELSE /\ existing' = [existing EXCEPT ![p] = g.ptr]
                /\ Goto(p, IF EmailChanged(in, g.ptr[1]) THEN "GetByEmail" ELSE "Update", cs)
        /\ UNCHANGED <<work, scan, store, clock, hist>>

\* faulty variant: the lookup's answer is not looked at
UpdateMember_GetByEmail_Unchecked(p) ==
    LET g  == ChurchMemberRepository_GetByEmail(church_members, m[p].Email)
        cs == <<Call("GetByEmail", m[p].Email)>>
    IN  /\ pc[p] = "GetByEmail"
        /\ IF g.err # NoErr
           THEN Finish(p, 0, Nil, g.err, cs)
           ELSE Goto(p, "Update", cs)
        /\ UNCHANGED <<work, scan, store, clock, op, req, m, existing, hist>>

\* UpdateMember's s.repo.GetByEmail(ctx, m.Email) (lines 78-85)
UpdateMember_GetByEmail(p) ==
    LET g  == ChurchMemberRepository_GetByEmail(church_members, m[p].Email)
        cs == <<Call("GetByEmail", m[p].Email)>>
    IN  /\ pc[p] = "GetByEmail"
        /\ IF g.err # NoErr
           THEN Finish(p, 0, Nil, g.err, cs)
           ELSE IF g.ptr # Nil
           THEN Finish(p, 0, Nil, ErrEmailExists, cs)
           ELSE Goto(p, "Update", cs)
        /\ UNCHANGED <<work, scan, store, clock, op, req, m, existing, hist>>

\* UpdateMember's return s.repo.Update(ctx, m) (line 87)
UpdateMember_Update(p) ==
    LET u == ChurchMemberRepository_Update(church_members, m[p], clock)
    IN  /\ pc[p] = "Update"
        /\ church_members' = u.rows
        /\ Finish(p, 0, Nil, u.err, <<Call("Update", m[p])>>)
        /\ UNCHANGED <<work, scan, church_members_id_seq, users, users_id_seq, clock,
                       op, req, m, existing, hist>>

DeleteMember(p, id) ==
    LET d == ChurchMemberRepository_Delete(church_members, id)
    IN  /\ Enter(p, "DeleteMember", IDOnly(id))
        /\ IF id <= 0
           THEN Finish(p, 0, Nil, ErrInvalidID, <<>>) /\ UNCHANGED church_members
           ELSE /\ church_members' = d.rows
                /\ Finish(p, 0, Nil, d.err, <<Call("Delete", id)>>)
        /\ UNCHANGED <<work, scan, church_members_id_seq, users, users_id_seq, clock,
                       m, existing, hist>>

\* ------------------------------------------------------------ List calls
\* BaseRepository.ScanRows up to the call of the scan function: QueryContext
\* fails and ScanRows returns its error, or gives the rows to the scan
\* function.  answers are the orders the query may give its rows in.
ScanRows(p, answers, cs) ==
    \/ /\ Finish(p, 0, Nil, ErrBadConn, cs)
       /\ UNCHANGED scan
    \/ \E s \in answers :
          /\ cursor' = [cursor EXCEPT ![p] = OpenRows(s)]
          /\ Goto(p, "Next", cs)
          /\ UNCHANGED listed

\* ListMembers: s.repo.List(ctx)
ListMembers(p) ==
    /\ Enter(p, "ListMembers", ZeroMember)
    /\ ScanRows(p, SelectMembers(church_members), <<Call("List", <<>>)>>)
    /\ UNCHANGED <<work, store, clock, m, existing, hist>>

\* faulty variant: a range of one instant is refused
After_OrEqual(t, u) == t >= u

\* startDate.After(endDate)
After(t, u) == t > u

ListMembersByJoinedDate(p, startDate, endDate) ==
    /\ Enter(p, "ListMembersByJoinedDate", [Start |-> startDate, End |-> endDate])
    /\ IF After(startDate, endDate)
       THEN Finish(p, 0, Nil, ErrDateRange, <<>>) /\ UNCHANGED scan
       ELSE ScanRows(p, SelectMembersByJoinedRange(church_members, startDate, endDate),
                     <<Call("ListByJoinedDateRange", <<startDate, endDate>>)>>)
    /\ UNCHANGED <<work, store, clock, m, existing, hist>>

\* ListUsers: s.repo.List(ctx)
ListUsers(p) ==
    /\ Enter(p, "ListUsers", ZeroUser)
    /\ ScanRows(p, SelectUsers(users), <<Call("List", <<>>)>>)
    /\ UNCHANGED <<work, store, clock, m, existing, hist>>

\* the scan function of List / ListByJoinedDateRange: rows.Next() is true,
\* rows.Scan reads the row, and the row is appended to the slice
List_Scan(p) ==
    /\ pc[p] = "Next"
    /\ cursor[p].pos < Len(cursor[p].rows)
    /\ cursor' = [cursor EXCEPT ![p].pos = @ + 1]
    /\ listed' = [listed EXCEPT ![p] = Append(@, cursor[p].rows[cursor[p].pos + 1])]
    /\ UNCHANGED <<work, store, clock, pc, op, req, m, existing, result, calls, hist>>

\* rows.Scan fails: the scan function returns the error, ScanRows closes the
\* rows and passes the error on, and List returns its slice with the error
List_ScanErr(p) ==
    /\ pc[p] = "Next"
    /\ cursor[p].pos < Len(cursor[p].rows)
    /\ cursor' = [cursor EXCEPT ![p] = DeferredClose(@)]
    /\ Finish(p, 0, Nil, ErrScan, <<>>)
    /\ UNCHANGED <<work, store, clock, op, req, m, existing, listed, hist>>

\* rows.Next() is false because the connection or the context failed:
\* the scan function returns rows.Err()
List_RowsErr(p) ==
    /\ pc[p] = "Next"
    /\ cursor' = [cursor EXCEPT ![p] = DeferredClose(@)]
    /\ Finish(p, 0, Nil, ErrBadConn, <<>>)
    /\ UNCHANGED <<work, store, clock, op, req, m, existing, listed, hist>>

\* rows.Next() is false after the last row and rows.Err() is nil
List_End(p) ==
    /\ pc[p] = "Next"
    /\ cursor[p].pos = Len(cursor[p].rows)
    /\ cursor' = [cursor EXCEPT ![p] = DeferredClose(@)]
    /\ Finish(p, 0, Nil, NoErr, <<>>)
    /\ UNCHANGED <<work, store, clock, op, req, m, existing, listed, hist>>

\* the scan function panics: the deferred Close runs while the panic unwinds
\* ScanRows, which does not return
List_Panic(p) ==
    /\ pc[p] = "Next"
    /\ cursor[p].pos < Len(cursor[p].rows)
    /\ cursor' = [cursor EXCEPT ![p] = DeferredClose(@)]
    /\ pc' = [pc EXCEPT ![p] = "panic"]
    /\ UNCHANGED <<work, store, clock, op, req, m, existing, result, calls, listed, hist>>

\* ------------------------------------------------------------ UserService
UserOnly(id) == [ZeroUser EXCEPT !.ID = id]

CreateUser(p, u) ==
    LET c == UserRepository_Create(users, users_id_seq, u, clock)
    IN  /\ Enter(p, "CreateUser", u)
        /\ users_id_seq <= MaxID
        /\ users' = c.rows
        /\ users_id_seq' = users_id_seq + 1
        /\ everUserIDs' = {r.ID : r \in c.rows} \cup everUserIDs
        /\ Finish(p, c.id, Nil, c.err, <<Call("Create", u)>>)
        /\ UNCHANGED <<work, scan, church_members, church_members_id_seq, clock, m, existing,
                       everMemberIDs>>

GetUser(p, id) ==
    LET g == UserRepository_GetByID(users, id)
    IN  /\ Enter(p, "GetUser", UserOnly(id))
        /\ Finish(p, 0, g.ptr, g.err, <<Call("GetByID", id)>>)
        /\ UNCHANGED <<work, scan, store, clock, m, existing, hist>>

UpdateUser(p, u) ==
    LET r == UserRepository_Update(users, u)
    IN  /\ Enter(p, "UpdateUser", u)
        /\ users' = r.rows
        /\ Finish(p, 0, Nil, r.err, <<Call("Update", u)>>)
        /\ UNCHANGED <<work, scan, church_members, church_members_id_seq, users_id_seq, clock,
                       m, existing, hist>>

DeleteUser(p, id) ==
    LET d == UserRepository_Delete(users, id)
    IN  /\ Enter(p, "DeleteUser", UserOnly(id))
        /\ users' = d.rows
        /\ Finish(p, 0, Nil, d.err, <<Call("Delete", id)>>)
        /\ UNCHANGED <<work, scan, church_members, church_members_id_seq, users_id_seq, clock,
                       m, existing, hist>>

\* ------------------------------------------------------------ ChurchMemberHandler
StatusOK == 200
StatusCreated == 201
StatusNoContent == 204
StatusBadRequest == 400
StatusNotFound == 404
StatusInternalServerError == 500

\* the status each handler writes for what its service call returned
CreateMemberHandler(res) ==
    IF res.err # NoErr THEN StatusBadRequest ELSE StatusCreated

GetMemberHandler(res) ==
    IF res.err # NoErr THEN StatusInternalServerError
    ELSE IF res.ptr = Nil THEN StatusNotFound
    ELSE StatusOK

UpdateMemberHandler(res) ==
    IF res.err # NoErr
    THEN IF res.err = "member not found" THEN StatusNotFound ELSE StatusBadRequest
    ELSE StatusNoContent

DeleteMemberHandler(res) ==
    IF res.err # NoErr THEN StatusInternalServerError ELSE StatusNoContent

ListMembersHandler(res) ==
    IF res.err # NoErr THEN StatusInternalServerError ELSE StatusOK

ListMembersByDateHandler(res) ==
    IF res.err # NoErr THEN StatusBadRequest ELSE StatusOK

\* the status of the response to a request whose service call o returned res
MemberStatus(o, res) ==
    CASE o = "CreateMember" -> CreateMemberHandler(res)
      [] o = "GetMember" -> GetMemberHandler(res)
      [] o = "UpdateMember" -> UpdateMemberHandler(res)
      [] o = "DeleteMember" -> DeleteMemberHandler(res)
      [] o = "ListMembers" -> ListMembersHandler(res)
      [] o = "ListMembersByJoinedDate" -> ListMembersByDateHandler(res)

\* ------------------------------------------------------------ environment
\* the caller has its answer; the request is over
Return(p) ==
    /\ pc[p] \in {"done", "panic"}
    /\ pc' = [pc EXCEPT ![p] = "idle"]
    /\ op' = [op EXCEPT ![p] = "none"]
    /\ req' = [req EXCEPT ![p] = ZeroMember]
    /\ m' = [m EXCEPT ![p] = ZeroMember]
    /\ existing' = [existing EXCEPT ![p] = Nil]
    /\ result' = [result EXCEPT ![p] = NoResult]
    /\ calls' = [calls EXCEPT ![p] = <<>>]
    /\ cursor' = [cursor EXCEPT ![p] = NoCursor]
    /\ listed' = [listed EXCEPT ![p] = <<>>]
    /\ UNCHANGED <<work, store, clock, hist>>

Tick ==
    /\ clock < MaxTime
    /\ clock' = clock + 1
    /\ UNCHANGED <<work, store, pc, op, req, m, existing, result, calls, scan, hist>>

\* ------------------------------------------------------------ inputs
NameAl  == <<"A", "l">>
NameBo  == <<"B", "o">>
NameCy  == <<"C", "y">>
NameA   == <<"A">>
EmailAl == <<"a", "l", "@", "x", ".", "c", "o">>
EmailBo == <<"b", "o", "@", "x", ".", "c", "o">>
\* VarCharLen letters and one trailing space: a valid name after TrimSpace
NameLong == [i \in 1..(VarCharLen + 1) |-> IF i <= VarCharLen THEN "a" ELSE " "]

ProfileAl ==
    [Name |-> NameAl, Email |-> EmailAl, Phone |-> <<"1">>, Address |-> <<"s">>,
     Biography |-> <<"b">>]
ProfileBo ==
    [Name |-> NameBo, Email |-> EmailBo, Phone |-> <<>>, Address |-> <<>>,
     Biography |-> <<>>]
\* Al's e-mail under another name
ProfileCy ==
    [Name |-> NameCy, Email |-> EmailAl, Phone |-> <<"2">>, Address |-> <<"t">>,
     Biography |-> <<"c">>]
\* a name of one character: fails validateMember
ProfileA ==
    [Name |-> NameA, Email |-> EmailBo, Phone |-> <<>>, Address |-> <<>>,
     Biography |-> <<>>]
ProfileLong ==
    [Name |-> NameLong, Email |-> EmailBo, Phone |-> <<>>, Address |-> <<>>,
     Biography |-> <<>>]

IDs == 0..MaxID

\* what a caller may pass as *model.ChurchMember, built from profiles fs
MembersOf(fs) ==
    { [ID |-> i, Name |-> f.Name, Email |-> f.Email, Phone |-> f.Phone,
       Address |-> f.Address, Biography |-> f.Biography,
       JoinedAt |-> j, CreatedAt |-> 0, UpdatedAt |-> 0] :
      f \in fs, i \in IDs, j \in 0..1 }

\* what a caller may pass as *model.User, built from profiles fs
UsersOf(fs) ==
    { [ID |-> i, Name |-> f.Name, Email |-> f.Email, CreatedAt |-> 0] :
      f \in fs, i \in IDs }

MemberInputs == MembersOf({ProfileAl, ProfileBo, ProfileCy, ProfileA})
UserInputs   == UsersOf({ProfileAl, ProfileBo, ProfileCy})
LongInputs   == {ProfileAl, ProfileLong}

\* ------------------------------------------------------------ specifications
MemberStep(p) ==
    \/ \E in \in MemberInputs : CreateMember(p, in)
    \/ CreateMember_Create(p)
    \/ \E id \in IDs : GetMember(p, id)
    \/ \E in \in MemberInputs : UpdateMember(p, in)
    \/ UpdateMember_GetByEmail(p)
    \/ UpdateMember_Update(p)
    \/ \E id \in IDs : DeleteMember(p, id)

UserStep(p) ==
    \/ \E u \in UserInputs : CreateUser(p, u)
    \/ \E id \in IDs : GetUser(p, id)
    \/ \E u \in UserInputs : UpdateUser(p, u)
    \/ \E id \in IDs : DeleteUser(p, id)

\* the whole service
Next ==
    \/ \E p \in Procs : MemberStep(p) \/ UserStep(p) \/ Return(p)
    \/ \E p \in Procs :
          \/ ListMembers(p)
          \/ \E startDate \in 0..MaxTime : \E endDate \in 0..MaxTime :
                ListMembersByJoinedDate(p, startDate, endDate)
          \/ ListUsers(p)
          \/ List_Scan(p) \/ List_ScanErr(p) \/ List_RowsErr(p)
          \/ List_End(p) \/ List_Panic(p)
    \/ Tick

Spec == Init /\ [][Next]_vars

\* requests to /members only, within one clock tick
NextMembers == \E p \in Procs : MemberStep(p) \/ Return(p)

SpecMembers == Init /\ [][NextMembers]_vars

\* requests to /users only, within one clock tick
NextUsers == \E p \in Procs : UserStep(p) \/ Return(p)

SpecUsers == Init /\ [][NextUsers]_vars

\* every request is one create call, of either kind, on the empty tables
NextCreates ==
    \E p \in Procs :
        \/ \E in \in MemberInputs : CreateMember(p, in)
        \/ CreateMember_Create(p)
        \/ \E u \in UserInputs : CreateUser(p, u)

SpecCreates == Init /\ [][NextCreates]_vars

\* creates and deletes of both kinds
NextDeletes ==
    \E p \in Procs :
        \/ \E f \in {ProfileAl, ProfileBo} : CreateMember(p, [ZeroMember EXCEPT
               !.Name = f.Name, !.Email = f.Email, !.Phone = f.Phone,
               !.Address = f.Address, !.Biography = f.Biography])
        \/ CreateMember_Create(p)
        \/ \E id \in IDs : DeleteMember(p, id)
        \/ \E f \in {ProfileAl, ProfileBo} : CreateUser(p, [ZeroUser EXCEPT
               !.Name = f.Name, !.Email = f.Email])
        \/ \E id \in IDs : DeleteUser(p, id)
        \/ Return(p)

SpecDeletes == Init /\ [][NextDeletes]_vars

\* creates and deletes of both kinds, with names up to the column width
NextLifecycle ==
    \E p \in Procs :
        \/ \E in \in MembersOf(LongInputs) : CreateMember(p, in)
        \/ CreateMember_Create(p)
        \/ \E id \in IDs : DeleteMember(p, id)
        \/ \E u \in UsersOf({ProfileAl}) : CreateUser(p, u)
        \/ \E id \in IDs : DeleteUser(p, id)
        \/ Return(p)

SpecLifecycle == Init /\ [][NextLifecycle]_vars

\* n times the character c
Rep(c, n) == [i \in 1..n |-> c]

\* values at and around the limits of validateMember, field by field
GoodNames  == {NameAl, <<" ", "A", "l", " ">>, Rep("a", MaxNameLen), NameLong}
BadNames   == {<<>>, <<" ", " ">>, NameA, Rep("a", MaxNameLen + 1)}
GoodEmails == {EmailAl, <<" ">> \o EmailAl \o <<" ">>}
BadEmails  == {<<>>, <<" ">>, <<"a", "l", "@", "x">>, <<"a", "l", "@", "x", ".", "c">>,
               <<"a", " ", "@", "x", ".", "c", "o">>, <<"a", "l", "@", "x", ".", "c", "0">>,
               <<"@", "x", ".", "c", "o">>}
GoodPhones == {<<>>, Rep("1", MaxPhoneLen)}
BadPhones  == {Rep("1", MaxPhoneLen + 1)}
GoodAddresses == {<<>>, Rep("s", MaxAddressLen)}
BadAddresses  == {Rep("s", MaxAddressLen + 1)}
GoodBiographies == {<<>>, Rep("b", MaxBiographyLen)}
BadBiographies  == {Rep("b", MaxBiographyLen + 1)}
\* a name of one character and a phone of eleven, of two bytes each
AccentedNames  == {<<"é">>}
AccentedPhones == {Rep("é", 11)}

Field(mm, f, v) == [mm EXCEPT ![f] = v]

\* ProfileAl with one field replaced by each of the values above, and with
\* every choice of fields replaced by a value that validateMember refuses
ValidationProfiles ==
    LET base == [ZeroMember EXCEPT !.ID = 1, !.Name = NameAl, !.Email = EmailAl]
    IN  {Field(base, "Name", v) : v \in GoodNames \cup BadNames \cup AccentedNames}
        \cup {Field(base, "Email", v) : v \in GoodEmails \cup BadEmails}
        \cup {Field(base, "Phone", v) : v \in GoodPhones \cup BadPhones \cup AccentedPhones}
        \cup {Field(base, "Address", v) : v \in GoodAddresses \cup BadAddresses}
        \cup {Field(base, "Biography", v) : v \in GoodBiographies \cup BadBiographies}
        \cup { [base EXCEPT !.Name = n, !.Email = e, !.Phone = ph, !.Address = a,
                            !.Biography = b] :
                 n \in {NameAl, NameA}, e \in {EmailAl, <<>>},
                 ph \in {<<>>, Rep("1", MaxPhoneLen + 1)},
                 a \in {<<>>, Rep("s", MaxAddressLen + 1)},
                 b \in {<<>>, Rep("b", MaxBiographyLen + 1)} }

ValidationInputs == ValidationProfiles \cup {[v EXCEPT !.ID = 0] : v \in ValidationProfiles}

\* the bounds of a range, and members that joined at the time of the call
\* (Al), at a stated earlier time (Bo) or at a stated later time (Al)
Times == 0..MaxTime
JoinedInputs ==
    { [ZeroMember EXCEPT !.Name = ProfileAl.Name, !.Email = ProfileAl.Email],
      [ZeroMember EXCEPT !.Name = ProfileAl.Name, !.Email = ProfileAl.Email,
                         !.JoinedAt = 2],
      [ZeroMember EXCEPT !.Name = ProfileBo.Name, !.Email = ProfileBo.Email,
                         !.JoinedAt = 1] }

\* no other request is in progress
Alone(p) == \A q \in Procs \ {p} : pc[q] = "idle"

\* members and users that carry times of their own: joinedAt or createdAt
\* and updatedAt are set to the last tick, the other is left zero
TimedInputs ==
    { [ZeroMember EXCEPT !.ID = 1, !.Name = f.Name, !.Email = f.Email,
                         !.JoinedAt = j, !.CreatedAt = MaxTime - j,
                         !.UpdatedAt = MaxTime - j] :
      f \in {ProfileAl, ProfileBo}, j \in {0, MaxTime} }
TimedUsers ==
    { [ZeroUser EXCEPT !.ID = 1, !.Name = f.Name, !.Email = f.Email,
                       !.CreatedAt = MaxTime] : f \in {ProfileAl, ProfileBo} }

\* creates and updates of members while the clock runs
NextTimes ==
    \/ \E p \in Procs :
          \/ \E in \in TimedInputs : CreateMember(p, in)
          \/ CreateMember_Create(p)
          \/ \E in \in TimedInputs : UpdateMember(p, in)
          \/ UpdateMember_GetByEmail(p)
          \/ UpdateMember_Update(p)
          \/ Return(p)
    \/ Tick

SpecTimes == Init /\ [][NextTimes]_vars

\* updates of both kinds while the clock runs; the users' requests run one
\* after the other
NextUpdates ==
    \/ \E p \in Procs :
          \/ \E in \in TimedInputs : in.JoinedAt = 0 /\ CreateMember(p, in)
          \/ CreateMember_Create(p)
          \/ \E in \in TimedInputs : UpdateMember(p, in)
          \/ UpdateMember_GetByEmail(p)
          \/ UpdateMember_Update(p)
          \/ Alone(p) /\ \E u \in TimedUsers : u.Name = NameAl /\ CreateUser(p, u)
          \/ Alone(p) /\ \E u \in TimedUsers : UpdateUser(p, u)
          \/ Return(p)
    \/ Tick

SpecUpdates == Init /\ [][NextUpdates]_vars

\* creates and updates of members with fields at and around the limits, one
\* request after the other
NextValidation ==
    \E p \in Procs :
        \/ Alone(p) /\ \E in \in ValidationProfiles : CreateMember(p, in)
        \/ Alone(p) /\ CreateMember_Create(p)
        \/ Alone(p) /\ \E in \in ValidationInputs : UpdateMember(p, in)
        \/ Alone(p) /\ UpdateMember_GetByEmail(p)
        \/ Alone(p) /\ UpdateMember_Update(p)
        \/ Return(p)

SpecValidation == Init /\ [][NextValidation]_vars

\* the scan function's steps, shared by the three list calls
ScanStep(p) ==
    \/ List_Scan(p)
    \/ List_ScanErr(p)
    \/ List_RowsErr(p)
    \/ List_End(p)
    \/ List_Panic(p)

\* member creates and the two member list calls
NextLists ==
    \E p \in Procs :
        \/ \E in \in JoinedInputs : CreateMember(p, in)
        \/ CreateMember_Create(p)
        \/ ListMembers(p)
        \/ \E startDate \in Times : \E endDate \in Times :
              ListMembersByJoinedDate(p, startDate, endDate)
        \/ ScanStep(p)
        \/ Return(p)

SpecLists == Init /\ [][NextLists]_vars

\* user creates and deletes and the user list call
NextUserLists ==
    \E p \in Procs :
        \/ \E f \in {ProfileAl, ProfileBo} : CreateUser(p, [ZeroUser EXCEPT
               !.Name = f.Name, !.Email = f.Email])
        \/ \E id \in IDs \ {0} : DeleteUser(p, id)
        \/ ListUsers(p)
        \/ ScanStep(p)
        \/ Return(p)

SpecUserLists == Init /\ [][NextUserLists]_vars

\* ------------------------------------------------------------ properties
Done(p, o) == pc[p] = "done" /\ op[p] = o

\* C1: in every reachable state no two stored church members have the same
\* e-mail (exact comparison), whatever the interleaving of CreateMember,
\* UpdateMember and DeleteMember calls.
C1_MemberEmailsUnique ==
    \A r1 \in church_members : \A r2 \in church_members :
        r1 # r2 => r1.Email # r2.Email /\ r1.ID # r2.ID

\* two members are stored and an UpdateMember that had passed its own check
\* was stopped by the table's UNIQUE constraint
C1_Witness ==
    /\ Cardinality(church_members) = 2
    /\ \E p \in Procs : Done(p, "UpdateMember") /\ result[p].err = ErrMembersEmailKey

\* the step is the first of service method o / ends p's call
Begins(p, o) == pc[p] = "idle" /\ op'[p] = o
Ends(p) == pc[p] # "done" /\ pc'[p] = "done"

SameFields(r, mm) ==
    /\ r.Name = mm.Name
    /\ r.Email = mm.Email
    /\ r.Phone = mm.Phone
    /\ r.Address = mm.Address
    /\ r.Biography = mm.Biography

\* a create the service and the table's column widths both accept
ValidCreate(o, in) ==
    o = "CreateMember" => validateMember(in) = NoErr /\ MemberRowFits(in)

Succeeded(p) == result[p].err = NoErr /\ result[p].id > 0
Duplicate(p) ==
    /\ result[p].err \in {ErrEmailExists, ErrMembersEmailKey, ErrUsersEmailKey}
    /\ result[p].id = 0

SameCreate(p, q) ==
    /\ op[p] \in {"CreateMember", "CreateUser"}
    /\ op[q] = op[p]
    /\ req[q].Email = req[p].Email

\* C2: of two valid create calls of one kind that carry the same e-mail, run
\* on tables that hold no such e-mail and with no third call for it, exactly
\* one returns success with an id and the other returns the conflict error or
\* the storage's duplicate-key error, in either order and at any interleaving.
C2_OneCreateWins ==
    \A p \in Procs : \A q \in Procs \ {p} :
        ( /\ SameCreate(p, q)
          /\ ValidCreate(op[p], req[p]) /\ ValidCreate(op[q], req[q])
          /\ pc[p] = "done" /\ pc[q] = "done"
          /\ \A r \in Procs \ {p, q} : ~SameCreate(p, r) )
        => \/ Succeeded(p) /\ Duplicate(q)
           \/ Succeeded(q) /\ Duplicate(p)

\* both calls passed the pre-check and the insert of one was refused
C2_Witness ==
    \E p \in Procs : \E q \in Procs \ {p} :
        /\ Done(p, "CreateMember") /\ Done(q, "CreateMember")
        /\ req[q].Email = req[p].Email
        /\ Succeeded(p)
        /\ result[q].err = ErrMembersEmailKey

\* C3: a create or update that returns success has written its row, with the
\* field values it was given, and one that returns an error has left the
\* table as it was; UpdateMember never returns success when no row has its id
\* at the moment of the write.
C3_WriteOrNothing ==
    [][\A p \in Procs :
        /\ (pc[p] = "Update" /\ Ends(p)) =>
              IF result'[p].err = NoErr
              THEN \E r \in church_members' : r.ID = m[p].ID /\ SameFields(r, m[p])
              ELSE church_members' = church_members
        /\ (pc[p] = "Create" /\ Ends(p)) =>
              IF result'[p].err = NoErr
              THEN \E r \in church_members' :
                      r.ID = result'[p].id /\ SameFields(r, m[p])
              ELSE church_members' = church_members
        /\ ((Begins(p, "CreateMember") \/ Begins(p, "UpdateMember")) /\ Ends(p)) =>
              result'[p].err # NoErr /\ church_members' = church_members
      ]_vars

\* C4: the id a successful create returns was never held by any entity, also
\* not by a deleted one, whatever id the input carried; GetByID of it right
\* after the create gives the entity with that id and with the name, e-mail,
\* phone, address, biography and supplied joinedAt of the input.
C4_CreateRoundTrip ==
    [][\A p \in Procs :
        /\ (pc[p] = "Create" /\ Ends(p) /\ result'[p].err = NoErr) =>
              LET g == ChurchMemberRepository_GetByID(church_members', result'[p].id)
              IN  /\ result'[p].id \notin everMemberIDs
                  /\ g.err = NoErr /\ g.ptr # Nil
                  /\ g.ptr[1].ID = result'[p].id
                  /\ SameFields(g.ptr[1], req[p])
                  /\ req[p].JoinedAt # 0 => g.ptr[1].JoinedAt = req[p].JoinedAt
        /\ (Begins(p, "CreateUser") /\ result'[p].err = NoErr) =>
              LET g == UserRepository_GetByID(users', result'[p].id)
              IN  /\ result'[p].id \notin everUserIDs
                  /\ g.err = NoErr /\ g.ptr # Nil
                  /\ g.ptr[1].ID = result'[p].id
                  /\ g.ptr[1].Name = req'[p].Name
                  /\ g.ptr[1].Email = req'[p].Email
      ]_vars

\* C5: CreateMember with a valid member whose e-mail is that of a stored
\* member returns "email already exists", makes no Create call and leaves the
\* table and its sequence unchanged.
C5_CreateConflict ==
    [][\A p \in Procs :
        ( /\ Begins(p, "CreateMember")
          /\ validateMember(req'[p]) = NoErr
          /\ \E r \in church_members : r.Email = req'[p].Email )
        => /\ pc'[p] = "done"
           /\ result'[p] = [id |-> 0, err |-> ErrEmailExists, ptr |-> Nil]
           /\ calls'[p] = <<Call("GetByEmail", req'[p].Email)>>
           /\ church_members' = church_members
           /\ church_members_id_seq' = church_members_id_seq
      ]_vars

\* a create was refused by the pre-check while the e-mail's holder is stored
C5_Witness ==
    \E p \in Procs :
        /\ Done(p, "CreateMember")
        /\ result[p].err = ErrEmailExists
        /\ \E r \in church_members : r.Email = req[p].Email

ErrUserNotFound == "user not found"

\* C6: UpdateMember with a positive id and valid fields, when no member has
\* that id, returns "member not found" after the one GetByID call, with no
\* GetByEmail and no Update call, and leaves the table unchanged.
C6_UpdateNotFound ==
    [][\A p \in Procs :
        ( /\ Begins(p, "UpdateMember")
          /\ req'[p].ID > 0
          /\ validateMember(req'[p]) = NoErr
          /\ \A r \in church_members : r.ID # req'[p].ID )
        => /\ pc'[p] = "done"
           /\ result'[p] = [id |-> 0, err |-> ErrMemberNotFound, ptr |-> Nil]
           /\ calls'[p] = <<Call("GetByID", req'[p].ID)>>
           /\ church_members' = church_members
      ]_vars

\* an update of an id that a member held and no longer holds was refused
C6_Witness ==
    \E p \in Procs :
        /\ Done(p, "UpdateMember")
        /\ result[p].err = ErrMemberNotFound
        /\ req[p].ID \in everMemberIDs

\* C7: UpdateUser on an id that no stored user has returns the not-found
\* error, as UpdateMember does, and not success.
C7_UpdateUserNotFound ==
    [][\A p \in Procs :
        (Begins(p, "UpdateUser") /\ \A r \in users : r.ID # req'[p].ID)
        => result'[p].err = ErrUserNotFound
      ]_vars

IsGetByEmail(c) == c.fn = "GetByEmail"

\* C8: an UpdateMember that found its member makes no GetByEmail call when the
\* new e-mail equals the stored one, and otherwise exactly one, for the new
\* e-mail, made after the GetByID and before the Update.
C8_LookupOnlyIfChanged ==
    \A p \in Procs :
        (op[p] = "UpdateMember" /\ existing[p] # Nil) =>
            LET lookups == SelectSeq(calls[p], IsGetByEmail)
            IN  IF m[p].Email = existing[p][1].Email
                THEN lookups = <<>> /\ pc[p] # "GetByEmail"
                ELSE IF pc[p] = "GetByEmail"
                THEN calls[p] = <<Call("GetByID", m[p].ID)>>
                ELSE /\ lookups = <<Call("GetByEmail", m[p].Email)>>
                     /\ calls[p][2] = Call("GetByEmail", m[p].Email)

\* one update went through with its e-mail unchanged, another with a new one
C8_Witness ==
    \E p \in Procs : \E q \in Procs :
        /\ Done(p, "UpdateMember") /\ existing[p] # Nil /\ result[p].err = NoErr
        /\ m[p].Email = existing[p][1].Email
        /\ Done(q, "UpdateMember") /\ existing[q] # Nil /\ result[q].err = NoErr
        /\ m[q].Email # existing[q][1].Email

\* C9: an UpdateMember that changes its member's e-mail goes on to look the
\* new e-mail up, and when a different stored member holds it the call
\* returns "email already exists" and every stored member is unchanged.
C9_UpdateConflict ==
    [][\A p \in Procs :
        /\ ( /\ Begins(p, "UpdateMember")
             /\ validateMember(req'[p]) = NoErr
             /\ \E r \in church_members : r.ID = req'[p].ID /\ r.Email # req'[p].Email )
           => pc'[p] = "GetByEmail" /\ church_members' = church_members
        /\ ( /\ pc[p] = "GetByEmail" /\ pc'[p] # "GetByEmail"
             /\ \E r \in church_members : r.ID # m[p].ID /\ r.Email = m[p].Email )
           => /\ pc'[p] = "done"
              /\ result'[p] = [id |-> 0, err |-> ErrEmailExists, ptr |-> Nil]
              /\ church_members' = church_members
      ]_vars

\* an update was refused because another stored member holds the new e-mail
C9_Witness ==
    \E p \in Procs :
        /\ Done(p, "UpdateMember")
        /\ result[p].err = ErrEmailExists
        /\ \E r \in church_members : r.ID = m[p].ID /\ r.Email # m[p].Email
        /\ \E r \in church_members : r.ID # m[p].ID /\ r.Email = m[p].Email

\* C10: a delete of a positive id, of either kind, is the one Delete call: it
\* returns success, removes the row with that id if there is one and changes
\* nothing otherwise, and a second delete of the id returns success again and
\* leaves the table as the first left it.
C10_DeleteIdempotent ==
    [][\A p \in Procs :
        /\ (Begins(p, "DeleteMember") /\ req'[p].ID > 0) =>
              /\ pc'[p] = "done"
              /\ result'[p] = NoResult
              /\ calls'[p] = <<Call("Delete", req'[p].ID)>>
              /\ church_members' = {r \in church_members : r.ID # req'[p].ID}
              /\ ChurchMemberRepository_Delete(church_members', req'[p].ID)
                   = [rows |-> church_members', err |-> NoErr]
        /\ (Begins(p, "DeleteUser") /\ req'[p].ID > 0) =>
              /\ pc'[p] = "done"
              /\ result'[p] = NoResult
              /\ calls'[p] = <<Call("Delete", req'[p].ID)>>
              /\ users' = {r \in users : r.ID # req'[p].ID}
              /\ UserRepository_Delete(users', req'[p].ID)
                   = [rows |-> users', err |-> NoErr]
      ]_vars

\* the same id, once held by a member and by a user, was deleted twice from
\* each table, every time with success
C10_Witness ==
    \E id \in everMemberIDs \cap everUserIDs :
        /\ \A r \in church_members \cup users : r.ID # id
        /\ \E p \in Procs : \E q \in Procs \ {p} :
              \/ /\ Done(p, "DeleteMember") /\ Done(q, "DeleteMember")
                 /\ req[p].ID = id /\ req[q].ID = id
                 /\ result[p].err = NoErr /\ result[q].err = NoErr
              \/ /\ Done(p, "DeleteUser") /\ Done(q, "DeleteUser")
                 /\ req[p].ID = id /\ req[q].ID = id
                 /\ result[p].err = NoErr /\ result[q].err = NoErr

NotFound == [ptr |-> Nil, err |-> NoErr]

\* C11: a successful delete of an id that an entity has held leaves no row
\* with that id, and from then on, through every create, update and delete,
\* GetByID of that id gives a nil result and no error.
C11_DeletedStaysGone ==
    [][/\ \A p \in Procs :
            /\ (Begins(p, "DeleteMember") /\ result'[p].err = NoErr) =>
                  ChurchMemberRepository_GetByID(church_members', req'[p].ID) = NotFound
            /\ Begins(p, "DeleteUser") =>
                  UserRepository_GetByID(users', req'[p].ID) = NotFound
       /\ \A id \in everMemberIDs :
            ChurchMemberRepository_GetByID(church_members, id) = NotFound
            => ChurchMemberRepository_GetByID(church_members', id) = NotFound
       /\ \A id \in everUserIDs :
            UserRepository_GetByID(users, id) = NotFound
            => UserRepository_GetByID(users', id) = NotFound
      ]_vars

\* a member's id was deleted with success and is not readable, while a member
\* created later is stored
C11_Witness ==
    \E p \in Procs :
        /\ Done(p, "DeleteMember") /\ result[p].err = NoErr
        /\ req[p].ID \in everMemberIDs
        /\ ChurchMemberRepository_GetByID(church_members, req[p].ID) = NotFound
        /\ \E r \in church_members : r.ID > req[p].ID

\* C11 as stated, for any id: once a delete of id has returned success,
\* GetByID of that id gives a nil result in every later state.
C11_AnyDeletedStaysGone ==
    [][\A p \in Procs :
        /\ (Done(p, "DeleteMember") /\ result[p].err = NoErr) =>
              ChurchMemberRepository_GetByID(church_members', req[p].ID) = NotFound
        /\ (Done(p, "DeleteUser") /\ result[p].err = NoErr) =>
              UserRepository_GetByID(users', req[p].ID) = NotFound
      ]_vars

ListsByRange(p) == op[p] = "ListMembersByJoinedDate"

\* C12: ListMembersByJoinedDate(start, end) with start <= end that returns no
\* error returns each member stored at the time of its query with
\* start <= joinedAt <= end exactly once, and no other, by joinedAt descending.
C12_RangeExact ==
    [][\A p \in Procs :
        /\ (Begins(p, "ListMembersByJoinedDate") /\ pc'[p] = "Next") =>
              LET rows == cursor'[p].rows
                  n    == Len(rows)
              IN  /\ req'[p].Start <= req'[p].End
                  /\ {rows[i] : i \in 1..n} =
                        {r \in church_members :
                            req'[p].Start <= r.JoinedAt /\ r.JoinedAt <= req'[p].End}
                  /\ \A i \in 1..n : \A j \in 1..n : i # j => rows[i] # rows[j]
                  /\ \A i \in 1..n : \A j \in 1..n :
                        i < j => rows[i].JoinedAt >= rows[j].JoinedAt
        /\ (ListsByRange(p) /\ Ends(p) /\ result'[p].err = NoErr) =>
              /\ req[p].Start <= req[p].End
              /\ listed'[p] = cursor[p].rows
        /\ (ListsByRange(p) /\ pc[p] = "Next") => cursor'[p].rows = cursor[p].rows
      ]_vars

\* a range whose bounds are the joinedAt of two stored members returned both,
\* the later one first
C12_Witness ==
    \E p \in Procs :
        /\ Done(p, "ListMembersByJoinedDate") /\ result[p].err = NoErr
        /\ Len(listed[p]) = 2
        /\ listed[p][1].JoinedAt = req[p].End
        /\ listed[p][2].JoinedAt = req[p].Start
        /\ req[p].Start < req[p].End
        /\ {listed[p][1], listed[p][2]} \subseteq church_members

\* C13: ListMembersByJoinedDate with start after end returns "start date must
\* be before end date" without a repository call or a query; with start equal
\* to end it makes the one ListByJoinedDateRange call.
C13_RangeValidated ==
    [][\A p \in Procs :
        Begins(p, "ListMembersByJoinedDate") =>
            IF req'[p].Start > req'[p].End
            THEN /\ pc'[p] = "done"
                 /\ result'[p] = [id |-> 0, err |-> ErrDateRange, ptr |-> Nil]
                 /\ calls'[p] = <<>>
                 /\ cursor'[p] = NoCursor /\ listed'[p] = <<>>
            ELSE /\ calls'[p] = <<Call("ListByJoinedDateRange",
                                       <<req'[p].Start, req'[p].End>>)>>
                 /\ result'[p].err # ErrDateRange
      ]_vars

\* one range was refused for its bounds, and a range of one instant returned
\* the member that joined at that instant
C13_Witness ==
    \E p \in Procs : \E q \in Procs :
        /\ Done(p, "ListMembersByJoinedDate") /\ result[p].err = ErrDateRange
        /\ Done(q, "ListMembersByJoinedDate") /\ result[q].err = NoErr
        /\ req[q].Start = req[q].End
        /\ Len(listed[q]) = 1

\* the rules of the member fields, lengths counted in characters
NameOK(mm) ==
    Len(TrimSpace(mm.Name)) >= MinNameLen /\ Len(TrimSpace(mm.Name)) <= MaxNameLen
EmailOK(mm) == TrimSpace(mm.Email) # <<>> /\ isValidEmail(TrimSpace(mm.Email))
PhoneOK(mm) == Len(mm.Phone) <= MaxPhoneLen
AddressOK(mm) == Len(mm.Address) <= MaxAddressLen
BiographyOK(mm) == Len(mm.Biography) <= MaxBiographyLen

NameErrors == {ErrNameRequired, ErrNameLength}
EmailErrors == {ErrEmailRequired, ErrEmailFormat}
ValidationErrors ==
    NameErrors \cup EmailErrors \cup {ErrPhoneLength, ErrAddressLength, ErrBiographyLength}

\* C14: a member passes validation exactly when its trimmed name has 2 to 255
\* characters, its trimmed e-mail is not empty and matches the pattern, its
\* phone has at most 20 characters, its address at most 500 and its biography
\* at most 5000; a member that breaks several rules is refused with the error
\* of the first broken one in the order name, e-mail, phone, address, biography.
C14_ValidationRules ==
    [][\A p \in Procs :
        Begins(p, "CreateMember") =>
            LET in == req'[p]
                e  == result'[p].err
            IN  IF ~NameOK(in) THEN e \in NameErrors
                ELSE IF ~EmailOK(in) THEN e \in EmailErrors
                ELSE IF ~PhoneOK(in) THEN e = ErrPhoneLength
                ELSE IF ~AddressOK(in) THEN e = ErrAddressLength
                ELSE IF ~BiographyOK(in) THEN e = ErrBiographyLength
                ELSE e \notin ValidationErrors
      ]_vars

\* C15: CreateMember and UpdateMember given a member that validateMember
\* refuses return at once with the validation error (UpdateMember with
\* "invalid member id" when the id is not positive), having made no
\* repository call, and the tables and sequences are unchanged.
C15_ValidationFirst ==
    [][\A p \in Procs :
        /\ (Begins(p, "CreateMember") /\ validateMember(req'[p]) # NoErr) =>
              /\ pc'[p] = "done"
              /\ result'[p] = [id |-> 0, err |-> validateMember(req'[p]), ptr |-> Nil]
              /\ result'[p].err \in ValidationErrors
              /\ calls'[p] = <<>>
              /\ store' = store
        /\ (Begins(p, "UpdateMember") /\ validateMember(req'[p]) # NoErr) =>
              /\ pc'[p] = "done"
              /\ result'[p] = [id |-> 0, ptr |-> Nil,
                               err |-> IF req'[p].ID <= 0 THEN ErrInvalidID
                                       ELSE validateMember(req'[p])]
              /\ calls'[p] = <<>>
              /\ store' = store
      ]_vars

\* an update of a stored member to a name of one character was refused
C15_Witness ==
    \E p \in Procs :
        /\ Done(p, "UpdateMember")
        /\ result[p].err = ErrNameLength
        /\ calls[p] = <<>>
        /\ Len(req[p].Name) = 1
        /\ \E r \in church_members : r.ID = req[p].ID

\* C16: the row a successful CreateMember stores has the joinedAt of the
\* input when that is not zero and otherwise the time at which the service
\* defaulted it, which it does only once validation and the e-mail lookup have
\* passed; its createdAt and updatedAt are the time of the insert, whatever
\* the input carried.
C16_JoinedAtDefault ==
    [][\A p \in Procs :
        /\ Begins(p, "CreateMember") =>
              m'[p].JoinedAt =
                  IF pc'[p] = "Create" /\ req'[p].JoinedAt = 0 THEN clock
                  ELSE req'[p].JoinedAt
        /\ (pc[p] = "Create" /\ Ends(p) /\ result'[p].err = NoErr) =>
              \E r \in church_members' \ church_members :
                  /\ r.ID = result'[p].id
                  /\ r.JoinedAt = m[p].JoinedAt
                  /\ r.JoinedAt # 0
                  /\ req[p].JoinedAt # 0 => r.JoinedAt = req[p].JoinedAt
                  /\ r.CreatedAt = clock /\ r.UpdatedAt = clock
        /\ pc[p] = "Create" => m'[p] = m[p] \/ pc'[p] = "idle"
      ]_vars

\* a member created without a joinedAt, with a createdAt in the input, is
\* stored as joined at the call and created at the later insert; another was
\* created with the joinedAt it supplied
C16_Witness ==
    \E p \in Procs : \E q \in Procs :
        /\ Done(p, "CreateMember") /\ result[p].err = NoErr
        /\ req[p].JoinedAt = 0 /\ req[p].CreatedAt = MaxTime
        /\ \E r \in church_members :
              r.ID = result[p].id /\ r.JoinedAt = 1 /\ r.CreatedAt = MaxTime
        /\ Done(q, "CreateMember") /\ result[q].err = NoErr
        /\ req[q].JoinedAt = MaxTime
        /\ \E r \in church_members :
              r.ID = result[q].id /\ r.JoinedAt = MaxTime /\ r.CreatedAt < MaxTime

MemberOps == {"CreateMember", "GetMember", "UpdateMember", "DeleteMember",
              "ListMembers", "ListMembersByJoinedDate"}

\* the status class the specification gives each kind of error
StatusOfKind(err) ==
    IF err \in ValidationErrors \cup {ErrInvalidID, ErrDateRange} THEN StatusBadRequest
    ELSE IF err = ErrEmailExists THEN StatusBadRequest
    ELSE IF err = ErrMemberNotFound THEN StatusNotFound
    ELSE StatusInternalServerError

\* C18: whatever member endpoint a request came through, the response to a
\* service call that returned an error has status 400 for a validation or
\* conflict error, 404 for not-found and 500 for a persistence failure.
C18_StatusByKind ==
    \A p \in Procs :
        (pc[p] = "done" /\ op[p] \in MemberOps /\ result[p].err # NoErr)
        => MemberStatus(op[p], result[p]) = StatusOfKind(result[p].err)

ListOps == {"ListMembers", "ListMembersByJoinedDate", "ListUsers"}

\* C19: a call that returns an error returns no result with it: the id is
\* zero, the entity is nil and the list is nil, also when List or
\* ListByJoinedDateRange fails on a row after it has read earlier rows.
C19_ResultOrError ==
    \A p \in Procs :
        (pc[p] = "done" /\ result[p].err # NoErr)
        => result[p].id = 0 /\ result[p].ptr = Nil /\ listed[p] = <<>>

\* C20: a ScanRows call whose query fails returns the error with no rows
\* opened and the scan function not called; rows that were opened are open
\* only while the scan function runs and are closed when ScanRows is left,
\* whether the scan function came to the end, returned an error partway or
\* panicked.
C20_RowsClosed ==
    [][\A p \in Procs :
        /\ (\E o \in ListOps : Begins(p, o)) =>
              IF pc'[p] = "done"
              THEN cursor'[p].state = "none" /\ ~cursor'[p].scanFn
              ELSE cursor'[p].state = "open" /\ cursor'[p].scanFn /\ pc'[p] = "Next"
        /\ cursor'[p].state = "open" => pc'[p] = "Next"
        /\ (pc'[p] \in {"done", "panic"} /\ cursor'[p].state # "none") =>
              cursor'[p].state = "closed"
      ]_vars

\* one list call returned an error after a row was read, another panicked,
\* and the rows of both are closed
C20_Witness ==
    \E p \in Procs : \E q \in Procs :
        /\ Done(p, "ListUsers") /\ result[p].err = ErrScan
        /\ cursor[p].pos = 1 /\ cursor[p].state = "closed"
        /\ pc[q] = "panic" /\ op[q] = "ListUsers"
        /\ cursor[q].state = "closed"

\* ------------------------------------------------------------ single-row reads
\* the errors a single-row query can end with other than ErrNoRows
DriverErrors == {ErrBadConn, ErrScan}

\* what QueryRowContext can give for the query that would answer q: the
\* answer itself, or a failure of the driver
QueryRow(q) == {q} \cup {[returning |-> {}, err |-> e] : e \in DriverErrors}

\* a caller of ChurchMemberRepository.GetByID
MemberGetByID(p, id) ==
    \E q \in QueryRow(SelectByID(church_members, id)) :
        LET g == OneOrNil(ScanRow(q))
        IN  /\ Enter(p, "MemberGetByID", IDOnly(id))
            /\ Finish(p, 0, g.ptr, g.err, <<Call("GetByID", id)>>)
            /\ UNCHANGED <<work, scan, store, clock, m, existing, hist>>

\* a caller of ChurchMemberRepository.GetByEmail
MemberGetByEmail(p, email) ==
    \E q \in QueryRow(SelectByEmail(church_members, email)) :
        LET g == OneOrNil(ScanRow(q))
        IN  /\ Enter(p, "MemberGetByEmail", [ZeroMember EXCEPT !.Email = email])
            /\ Finish(p, 0, g.ptr, g.err, <<Call("GetByEmail", email)>>)
            /\ UNCHANGED <<work, scan, store, clock, m, existing, hist>>

\* a caller of UserRepository.GetByID
UserGetByID(p, id) ==
    \E q \in QueryRow(SelectByID(users, id)) :
        LET g == OneOrNil(ScanRow(q))
        IN  /\ Enter(p, "UserGetByID", UserOnly(id))
            /\ Finish(p, 0, g.ptr, g.err, <<Call("GetByID", id)>>)
            /\ UNCHANGED <<work, scan, store, clock, m, existing, hist>>

\* rows are created through the services and read through the repositories
NextReads ==
    \E p \in Procs :
        \/ \E in \in MembersOf({ProfileAl, ProfileBo}) : in.ID = 0 /\ CreateMember(p, in)
        \/ CreateMember_Create(p)
        \/ \E u \in UsersOf({ProfileAl, ProfileBo}) : u.ID = 0 /\ CreateUser(p, u)
        \/ \E id \in IDs : MemberGetByID(p, id)
        \/ \E email \in {EmailAl, EmailBo} : MemberGetByEmail(p, email)
        \/ \E id \in IDs : UserGetByID(p, id)
        \/ Return(p)

SpecReads == Init /\ [][NextReads]_vars

ReadOps == {"MemberGetByID", "MemberGetByEmail", "UserGetByID"}

\* the rows of the table that the read of process p asks for
Matching(p) ==
    IF op'[p] = "MemberGetByID" THEN {r \in church_members : r.ID = req'[p].ID}
    ELSE IF op'[p] = "MemberGetByEmail" THEN {r \in church_members : r.Email = req'[p].Email}
    ELSE {r \in users : r.ID = req'[p].ID}

\* C21: GetByID and GetByEmail return (nil, no error) when no row matches and
\* only then, the matching row with no error when there is one, and (nil, error)
\* for a failure of the query; ErrNoRows is never what the caller gets.
C21_ReadOutcomes ==
    [][\A p \in Procs :
         (pc[p] = "idle" /\ op'[p] \in ReadOps) =>
            LET res == [ptr |-> result'[p].ptr, err |-> result'[p].err]
            IN  /\ res.err # ErrNoRows
                /\ \/ res.ptr = Nil /\ res.err \in DriverErrors
                   \/ Matching(p) = {} /\ res = NotFound
                   \/ /\ Matching(p) # {}
                      /\ res.err = NoErr
                      /\ res.ptr # Nil
                      /\ res.ptr[1] \in Matching(p)]_vars

\* one read found nothing, and another failed although its row is stored
C21_Witness ==
    \E p \in Procs : \E q \in Procs :
        /\ Done(p, "MemberGetByID") /\ result[p].ptr = Nil /\ result[p].err = NoErr
        /\ \A r \in church_members : r.ID # req[p].ID
        /\ Done(q, "MemberGetByEmail") /\ result[q].err \in DriverErrors
        /\ result[q].ptr = Nil
        /\ \E r \in church_members : r.Email = req[q].Email

\* ------------------------------------------------------------ UnitOfWork
MaxTx    == 3      \* transactions the database begins
MaxCalls == 4      \* calls made on one unit of work

ErrTxDone == "sql: transaction has already been committed or rolled back"

\* everything the unit of work does not touch
crud == <<store, clock, pc, op, req, m, existing, result, calls, scan, hist>>

\* what db.BeginTx gives on success: a transaction not yet finished
NewTx(p) == [done |-> FALSE, committed |-> FALSE, rolledBack |-> FALSE, owner |-> p]

\* (*sql.Tx).Commit: ErrTxDone on a finished transaction; otherwise the
\* transaction is finished, and when COMMIT fails on the connection the server
\* has either committed it or rolled it back
TxCommit(t) ==
    IF t.done THEN {[tx |-> t, err |-> ErrTxDone]}
    ELSE {[tx |-> [t EXCEPT !.done = TRUE, !.committed = TRUE], err |-> NoErr],
          [tx |-> [t EXCEPT !.done = TRUE, !.committed = TRUE], err |-> ErrBadConn],
          [tx |-> [t EXCEPT !.done = TRUE, !.rolledBack = TRUE], err |-> ErrBadConn]}

\* faulty variant: Rollback acts on a transaction that is already finished
TxRollback_AfterDone(t) ==
    {[tx |-> [t EXCEPT !.done = TRUE, !.rolledBack = TRUE], err |-> e] :
        e \in {NoErr, ErrBadConn}}

\* (*sql.Tx).Rollback: ErrTxDone on a finished transaction; otherwise the
\* transaction is rolled back, also when the connection fails
TxRollback(t) ==
    IF t.done THEN {[tx |-> t, err |-> ErrTxDone]}
    ELSE {[tx |-> [t EXCEPT !.done = TRUE, !.rolledBack = TRUE], err |-> e] :
             e \in {NoErr, ErrBadConn}}

\* faulty variant: Commit without a transaction is an error
UnitOfWorkImpl_Commit_NilIsError(u, ts) ==
    IF u.tx = Nil THEN {[txs |-> ts, err |-> ErrTxDone]}
    ELSE {[txs |-> [ts EXCEPT ![u.tx[1]] = r.tx], err |-> r.err] :
             r \in TxCommit(ts[u.tx[1]])}

\* Commit: nil when uow.tx is nil, else uow.tx.Commit()
UnitOfWorkImpl_Commit(u, ts) ==
    IF u.tx = Nil THEN {[txs |-> ts, err |-> NoErr]}
    ELSE {[txs |-> [ts EXCEPT ![u.tx[1]] = r.tx], err |-> r.err] :
             r \in TxCommit(ts[u.tx[1]])}

\* Rollback: nil when uow.tx is nil, else uow.tx.Rollback()
UnitOfWorkImpl_Rollback(u, ts) ==
    IF u.tx = Nil THEN {[txs |-> ts, err |-> NoErr]}
    ELSE {[txs |-> [ts EXCEPT ![u.tx[1]] = r.tx], err |-> r.err] :
             r \in TxRollback(ts[u.tx[1]])}

\* Tx(): the field, whatever became of the transaction
Tx(p) == uow[p].tx

\* Begin: db.BeginTx fails and uow.tx keeps its value, or succeeds and uow.tx
\* is set to the new transaction
Begin(p) ==
    /\ uow[p].n < MaxCalls
    /\ \/ /\ uow' = [uow EXCEPT ![p].op = "Begin", ![p].err = ErrBadConn, ![p].n = @ + 1]
          /\ UNCHANGED txs
       \/ /\ Len(txs) < MaxTx
          /\ txs' = Append(txs, NewTx(p))
          /\ uow' = [uow EXCEPT ![p] = [tx |-> <<Len(txs) + 1>>, op |-> "Begin",
                                        err |-> NoErr, n |-> @.n + 1, begun |-> TRUE]]
    /\ UNCHANGED crud

Commit(p) ==
    /\ uow[p].n < MaxCalls
    /\ \E r \in UnitOfWorkImpl_Commit(uow[p], txs) :
          /\ txs' = r.txs
          /\ uow' = [uow EXCEPT ![p].op = "Commit", ![p].err = r.err, ![p].n = @ + 1]
    /\ UNCHANGED crud

Rollback(p) ==
    /\ uow[p].n < MaxCalls
    /\ \E r \in UnitOfWorkImpl_Rollback(uow[p], txs) :
          /\ txs' = r.txs
          /\ uow' = [uow EXCEPT ![p].op = "Rollback", ![p].err = r.err, ![p].n = @ + 1]
    /\ UNCHANGED crud

\* the context given to BeginTx is done while the transaction is open:
\* database/sql rolls the transaction back
ContextDone(t) ==
    /\ ~txs[t].done
    /\ txs' = [txs EXCEPT ![t].done = TRUE, ![t].rolledBack = TRUE]
    /\ UNCHANGED <<uow, crud>>

\* each request works on a unit of work of its own, on one database
NextUnitOfWork ==
    \/ \E p \in Procs : Begin(p) \/ Commit(p) \/ Rollback(p)
    \/ \E t \in DOMAIN txs : ContextDone(t)

SpecUnitOfWork == Init /\ [][NextUnitOfWork]_vars

\* the states of a coordinator, read from its handle
Idle(p)     == Tx(p) = Nil
Active(p)   == Tx(p) # Nil /\ ~txs[Tx(p)[1]].done
Terminal(p) == Tx(p) # Nil /\ txs[Tx(p)[1]].done

\* process p makes call o on its unit of work in this step
Makes(p, o) == uow'[p].n = uow[p].n + 1 /\ uow'[p].op = o

\* C22: on a unit of work on which Begin has never succeeded, every Commit and
\* every Rollback returns nil, changes no transaction and leaves Tx() nil.
C22_NothingToFinalize ==
    [][\A p \in Procs :
         (~uow[p].begun /\ (Makes(p, "Commit") \/ Makes(p, "Rollback"))) =>
            /\ uow'[p].err = NoErr
            /\ txs' = txs
            /\ uow'[p].tx = Nil
            /\ ~uow'[p].begun]_vars

\* MaxCalls calls, the last one a Rollback, on a unit of work that never
\* began, while the other unit of work has an open transaction
C22_Witness ==
    \E p \in Procs : \E q \in Procs :
        /\ ~uow[p].begun /\ uow[p].n = MaxCalls /\ uow[p].op = "Rollback"
        /\ uow[p].err = NoErr /\ Idle(p)
        /\ Active(q)

\* C23: a successful Begin makes the coordinator active and Tx() gives the
\* handle; a Commit or Rollback on an active coordinator leaves it terminal, so
\* that Tx() is no longer the handle of an open transaction; and no
\* transaction is both committed and rolled back.
C23_Lifecycle ==
    [][/\ \A p \in Procs :
            /\ (Makes(p, "Begin") /\ uow'[p].err = NoErr) =>
                  /\ Tx(p)' # Nil
                  /\ Active(p)'
                  /\ Tx(p)' \notin {Tx(q) : q \in Procs}
            /\ (Active(p) /\ (Makes(p, "Commit") \/ Makes(p, "Rollback"))) =>
                  /\ Terminal(p)'
                  /\ ~Active(p)'
                  /\ LET t == txs'[Tx(p)[1]] IN t.committed \/ t.rolledBack
       /\ \A t \in DOMAIN txs' : ~(txs'[t].committed /\ txs'[t].rolledBack)]_vars

\* a coordinator committed its transaction and then called Rollback, which
\* found the transaction finished
C23_Witness ==
    \E p \in Procs :
        /\ Terminal(p)
        /\ txs[Tx(p)[1]].committed
        /\ uow[p].op = "Rollback" /\ uow[p].err = ErrTxDone

\* C29: every transaction a unit of work opened is the one Tx() gives until it
\* is committed or rolled back, and a unit of work has at most one open
\* transaction.
C29_OpenTxReachable ==
    /\ \A t \in DOMAIN txs : ~txs[t].done => Tx(txs[t].owner) = <<t>>
    /\ \A p \in Procs :
          Cardinality({t \in DOMAIN txs : txs[t].owner = p /\ ~txs[t].done}) <= 1

\* ------------------------------------------------------------ users without a name
\* a user whose name is the empty string
ProfileNoName ==
    [Name |-> <<>>, Email |-> EmailBo, Phone |-> <<>>, Address |-> <<>>,
     Biography |-> <<>>]

NamelessInputs == UsersOf({ProfileAl, ProfileNoName})

\* requests to /users, some of them with an empty name
NextUserNames ==
    \E p \in Procs :
        \/ \E u \in NamelessInputs : CreateUser(p, u)
        \/ \E u \in NamelessInputs : UpdateUser(p, u)
        \/ \E id \in IDs : GetUser(p, id)
        \/ Return(p)

SpecUserNames == Init /\ [][NextUserNames]_vars

\* C24: CreateUser and UpdateUser with an empty name end with an error and
\* without a repository call, and no stored user has an empty name.
C24_UserNameRequired ==
    /\ \A p \in Procs :
          ((Done(p, "CreateUser") \/ Done(p, "UpdateUser")) /\ req[p].Name = <<>>) =>
              result[p].err # NoErr /\ calls[p] = <<>>
    /\ \A r \in users : r.Name # <<>>

\* ------------------------------------------------------------ both list calls
\* creates of both kinds and the two list calls; a request to /users runs
\* while no other request does
NextAllLists ==
    \E p \in Procs :
        \/ \E in \in JoinedInputs : CreateMember(p, in)
        \/ CreateMember_Create(p)
        \/ ListMembers(p)
        \/ \E f \in {ProfileAl, ProfileBo} :
              Alone(p) /\ CreateUser(p, [ZeroUser EXCEPT !.Name = f.Name, !.Email = f.Email])
        \/ Alone(p) /\ ListUsers(p)
        \/ ScanStep(p)
        \/ Return(p)

SpecAllLists == Init /\ [][NextAllLists]_vars

\* the rows of sequence s are those of set S, each once
EachOnce(s, S) ==
    /\ {s[i] : i \in 1..Len(s)} = S
    /\ \A i \in 1..Len(s) : \A j \in 1..Len(s) : i # j => s[i] # s[j]

\* C25: a List call that returns no error returns every entity stored at the
\* time of its query exactly once, users by ascending id and church members by
\* descending joinedAt; on an empty table that is the empty sequence.
C25_ListComplete ==
    [][\A p \in Procs :
        /\ (Begins(p, "ListMembers") /\ pc'[p] = "Next") =>
              LET rows == cursor'[p].rows
              IN  /\ EachOnce(rows, church_members)
                  /\ \A i \in 1..Len(rows) : \A j \in 1..Len(rows) :
                        i < j => rows[i].JoinedAt >= rows[j].JoinedAt
        /\ (Begins(p, "ListUsers") /\ pc'[p] = "Next") =>
              LET rows == cursor'[p].rows
              IN  /\ EachOnce(rows, users)
                  /\ \A i \in 1..Len(rows) : \A j \in 1..Len(rows) :
                        i < j => rows[i].ID < rows[j].ID
        /\ (op[p] \in {"ListMembers", "ListUsers"} /\ Ends(p) /\ result'[p].err = NoErr) =>
              /\ listed'[p] = cursor[p].rows
              /\ result'[p].ptr = Nil
        /\ (op[p] \in {"ListMembers", "ListUsers"} /\ pc[p] = "Next") =>
              cursor'[p].rows = cursor[p].rows
        /\ (Begins(p, "ListMembers") /\ church_members = {} /\ pc'[p] = "Next") =>
              cursor'[p].rows = <<>>
        /\ (Begins(p, "ListUsers") /\ users = {} /\ pc'[p] = "Next") =>
              cursor'[p].rows = <<>>
      ]_vars

\* one request listed the two users, the other the two church members, which
\* differ in joinedAt
C25_Witness ==
    \E p \in Procs : \E q \in Procs :
        /\ Done(p, "ListMembers") /\ result[p].err = NoErr
        /\ Len(listed[p]) = 2 /\ listed[p][1].JoinedAt > listed[p][2].JoinedAt
        /\ Done(q, "ListUsers") /\ result[q].err = NoErr
        /\ Len(listed[q]) = 2 /\ listed[q][1].ID < listed[q][2].ID

\* ------------------------------------------------------------ ids of any sign
\* the ids a caller may pass: the path parameter is any integer
SignedIDs == (0 - 1)..MaxID

SignedInputs ==
    { [ZeroMember EXCEPT !.ID = i, !.Name = f.Name, !.Email = f.Email] :
        f \in {ProfileAl, ProfileA}, i \in SignedIDs }

\* requests to /members with ids below, at and above zero
NextIDs ==
    \E p \in Procs :
        \/ \E f \in {ProfileAl, ProfileBo} :
              CreateMember(p, [ZeroMember EXCEPT !.Name = f.Name, !.Email = f.Email])
        \/ CreateMember_Create(p)
        \/ \E id \in SignedIDs : GetMember(p, id)
        \/ \E in \in SignedInputs : UpdateMember(p, in)
        \/ UpdateMember_GetByEmail(p)
        \/ UpdateMember_Update(p)
        \/ \E id \in SignedIDs : DeleteMember(p, id)
        \/ Return(p)

SpecIDs == Init /\ [][NextIDs]_vars

\* C26: GetMember, UpdateMember and DeleteMember with an id that is not
\* positive return "invalid member id" without a repository call, in
\* UpdateMember also when the fields are invalid; UpdateMember with a positive
\* id that no member has and invalid fields returns the validation error, not
\* "member not found".
C26_IDCheckedFirst ==
    [][\A p \in Procs :
        /\ ((Begins(p, "GetMember") \/ Begins(p, "UpdateMember") \/ Begins(p, "DeleteMember"))
              /\ req'[p].ID <= 0) =>
              /\ pc'[p] = "done"
              /\ result'[p] = [id |-> 0, err |-> ErrInvalidID, ptr |-> Nil]
              /\ calls'[p] = <<>>
              /\ store' = store
        /\ (Begins(p, "UpdateMember") /\ req'[p].ID > 0
              /\ validateMember(req'[p]) # NoErr
              /\ \A r \in church_members : r.ID # req'[p].ID) =>
              /\ pc'[p] = "done"
              /\ result'[p].err = validateMember(req'[p])
              /\ result'[p].err \in ValidationErrors
              /\ result'[p].err # ErrMemberNotFound
              /\ calls'[p] = <<>>
      ]_vars

\* two updates with a name of one character: the one with a negative id was
\* refused for its id, the one with an id no member has for its name
C26_Witness ==
    \E p \in Procs : \E q \in Procs :
        /\ Done(p, "UpdateMember") /\ req[p].ID < 0 /\ Len(req[p].Name) = 1
        /\ result[p].err = ErrInvalidID /\ calls[p] = <<>>
        /\ Done(q, "UpdateMember") /\ req[q].ID > 0 /\ Len(req[q].Name) = 1
        /\ \A r \in church_members : r.ID # req[q].ID
        /\ church_members # {}
        /\ result[q].err = ErrNameLength /\ calls[q] = <<>>

\* C28: every stored church member has an e-mail that matches the pattern as
\* stored and a name of length 2 to 255 (len, as validateMember measures it),
\* neither with white space at its ends, and no two stored members have e-mails that are equal once trimmed.
C28_StoredAsValidated ==
    /\ \A r \in church_members :
          /\ isValidEmail(r.Email)
          /\ ByteLen(r.Name) >= MinNameLen /\ ByteLen(r.Name) <= MaxNameLen
          /\ r.Name = TrimSpace(r.Name)
          /\ r.Email = TrimSpace(r.Email)
    /\ \A r1 \in church_members : \A r2 \in church_members :
          r1 # r2 => TrimSpace(r1.Email) # TrimSpace(r2.Email)

\* ------------------------------------------------------------ GET /members/joined
TicksPerDay == 2   \* instants of the clock in one calendar day
MaxDay      == 2   \* calendar days a request may name

Days == 0..MaxDay

\* time.Parse("2006-01-02", s) for the date of day d: midnight at its start
ParseDate(d) == d * TicksPerDay

\* the calendar day an instant falls on
DayOf(t) == t \div TicksPerDay

\* endDate.Add(24 * time.Hour)
AddDay(t) == t + TicksPerDay

\* ListMembersByDateHandler for start and end that are both dates: both are
\* parsed, the end is moved on by a day, and the service is called
ListMembersByDate(p, start, end) ==
    ListMembersByJoinedDate(p, ParseDate(start), AddDay(ParseDate(end)))

\* members that joined at the last instant of day 0 (Bo) and at midnight at
\* the start of day 1 (Al)
DayInputs ==
    { [ZeroMember EXCEPT !.Name = ProfileBo.Name, !.Email = ProfileBo.Email,
                         !.JoinedAt = ParseDate(1) - 1],
      [ZeroMember EXCEPT !.Name = ProfileAl.Name, !.Email = ProfileAl.Email,
                         !.JoinedAt = ParseDate(1)] }

\* member creates and requests to GET /members/joined
NextRange ==
    \E p \in Procs :
        \/ \E in \in DayInputs : CreateMember(p, in)
        \/ CreateMember_Create(p)
        \/ \E start \in Days : \E end \in Days : ListMembersByDate(p, start, end)
        \/ ScanStep(p)
        \/ Return(p)

SpecRange == Init /\ [][NextRange]_vars

\* the days named by the request whose service call got arguments a
StartDay(a) == DayOf(a.Start)
EndDay(a)   == DayOf(a.End) - 1

\* C27: the query of GET /members/joined?start=S&end=E gives exactly the
\* members whose joinedAt falls on a day from S to E: those of day E are
\* among them and those of the day after E are not.
C27_RangeByDay ==
    [][\A p \in Procs :
        (Begins(p, "ListMembersByJoinedDate") /\ pc'[p] = "Next") =>
            {cursor'[p].rows[i] : i \in 1..Len(cursor'[p].rows)} =
                {r \in church_members :
                    /\ StartDay(req'[p]) <= DayOf(r.JoinedAt)
                    /\ DayOf(r.JoinedAt) <= EndDay(req'[p])}
      ]_vars

\* C30: GET /members/joined with a start day later than its end day, also when
\* later by one day, is answered with status 400 and runs no query.
C30_ReversedRejected ==
    [][\A p \in Procs :
        (Begins(p, "ListMembersByJoinedDate") /\ StartDay(req'[p]) > EndDay(req'[p])) =>
            /\ pc'[p] = "done"
            /\ ListMembersByDateHandler(result'[p]) = StatusBadRequest
            /\ calls'[p] = <<>>
            /\ cursor'[p] = NoCursor
      ]_vars

====
